---- MODULE Spec2Model ----
(***************************************************************************)
(* Model of weverse/objects/notification.py: the Notification class, its   *)
(* constructor, its comparison and hashing, its textual forms and its      *)
(* three derived properties (url, post_id, post_type).                     *)
(*                                                                         *)
(* Python values are records tagged with their class (cls); a str carries  *)
(* its characters as a sequence of one-character strings, so that regular  *)
(* expression search and the substring test are computed character by      *)
(* character.                                                              *)
(***************************************************************************)
EXTENDS Integers, Sequences, FiniteSets, TLC

VARIABLES objs, last

vars == <<objs, last>>

(***************************************************************************)
(* Python values                                                           *)
(***************************************************************************)
PyNone == [cls |-> "NoneType"]

PyStr(chars) == [cls |-> "str", v |-> chars]

PyInt(i) == [cls |-> "int", v |-> i]

PyBool(b) == [cls |-> "bool", v |-> b]

PyList(items) == [cls |-> "list", v |-> items]

PyDict(mapping) == [cls |-> "dict", v |-> mapping]

\* a member of the NotificationType enumeration, known by its name
NotificationType(name) == [cls |-> "NotificationType", name |-> name]

\* the outcome of evaluating an expression: a value, or an exception raised
Return(value) == [kind |-> "return", v |-> value]

Raise(exc) == [kind |-> "raise", exc |-> exc]

\* d[k] on a dict: the value, or KeyError
Subscript(d, k) == IF k \in DOMAIN d.v THEN Return(d.v[k]) ELSE Raise("KeyError")

\* d.get(k, default) on a dict
Get(d, k, default) == IF k \in DOMAIN d.v THEN d.v[k] ELSE default

\* truth value of a Python value as tested by `if x`
Truthy(x) ==
    CASE x.cls = "NoneType" -> FALSE
      [] x.cls = "list" -> x.v # <<>>
      [] x.cls = "str" -> x.v # <<>>
      [] x.cls = "int" -> x.v # 0
      [] x.cls = "bool" -> x.v
      [] OTHER -> TRUE

(***************************************************************************)
(* Strings                                                                 *)
(***************************************************************************)
Digits == {"0", "1", "2", "3", "4", "5", "6", "7", "8", "9"}

IsDigit(c) == c \in Digits

DigitChars == <<"0", "1", "2", "3", "4", "5", "6", "7", "8", "9">>

\* str(n) for a natural number
RECURSIVE NatToStr(_)
NatToStr(n) ==
    IF n < 10 THEN <<DigitChars[n + 1]>>
    ELSE NatToStr(n \div 10) \o <<DigitChars[(n % 10) + 1]>>

\* the text an int is formatted as inside an f-string
IntToStr(i) == IF i < 0 THEN <<"-">> \o NatToStr(-i) ELSE NatToStr(i)

\* variant of Contains that tests a prefix only, as s.startswith(key) would
ContainsAsPrefix(key, s) == Len(key) <= Len(s) /\ SubSeq(s, 1, Len(key)) = key

\* Python's `key in s` for two strings: key occurs as a contiguous substring
Contains(key, s) ==
    \E i \in 1..(Len(s) - Len(key) + 1) : SubSeq(s, i, i + Len(key) - 1) = key

(***************************************************************************)
(* Regular expression search (module re)                                   *)
(***************************************************************************)
NoMatch == [start |-> 0, end |-> 0]

\* greedy \d+ : the last position of the digit run that holds position k
RECURSIVE DigitsEnd(_, _)
DigitsEnd(s, k) ==
    IF k + 1 <= Len(s) /\ IsDigit(s[k + 1]) THEN DigitsEnd(s, k + 1) ELSE k

\* ([\d]-\d+) matches at position i: one digit, a hyphen, one or more digits
HyphenatedAt(s, i) ==
    /\ i + 2 <= Len(s)
    /\ IsDigit(s[i])
    /\ s[i + 1] = "-"
    /\ IsDigit(s[i + 2])

\* re.search tries every start position from the left and keeps the first match
RECURSIVE SearchHyphenatedFrom(_, _)
SearchHyphenatedFrom(s, i) ==
    IF i > Len(s) THEN NoMatch
    ELSE IF HyphenatedAt(s, i) THEN [start |-> i, end |-> DigitsEnd(s, i + 2)]
    ELSE SearchHyphenatedFrom(s, i + 1)

\* re.search(re.compile(r"([\d]-\d+)"), s)
SearchHyphenated(s) == SearchHyphenatedFrom(s, 1)

RECURSIVE SearchDigitsFrom(_, _)
SearchDigitsFrom(s, i) ==
    IF i > Len(s) THEN NoMatch
    ELSE IF IsDigit(s[i]) THEN [start |-> i, end |-> DigitsEnd(s, i)]
    ELSE SearchDigitsFrom(s, i + 1)

\* variant of SearchDigits for the pattern \d, which stops after one digit
SearchOneDigit(s) ==
    LET m == SearchDigitsFrom(s, 1)
    IN  IF m = NoMatch THEN NoMatch ELSE [start |-> m.start, end |-> m.start]

\* re.search(r"\d+", s)
SearchDigits(s) == SearchDigitsFrom(s, 1)

\* variant of Group0 that turns a failed search into the empty string
Group0OrEmpty(match, s) ==
    IF match = NoMatch THEN Return(PyStr(<<>>))
    ELSE Return(PyStr(SubSeq(s, match.start, match.end)))

\* match.group(0); a failed search gave None, which has no attribute group
Group0(match, s) ==
    IF match = NoMatch THEN Raise("AttributeError")
    ELSE Return(PyStr(SubSeq(s, match.start, match.end)))

(***************************************************************************)
(* Collaborators: the two value objects the constructor wraps              *)
(***************************************************************************)
\* PartialCommunity(data): wraps the community sub-mapping it is given
PartialCommunity(data) == [cls |-> "PartialCommunity", data |-> data]

\* PartialMember(data): wraps the member sub-mapping it is given
PartialMember(data) == [cls |-> "PartialMember", data |-> data]

(***************************************************************************)
(* Notification.__init__                                                   *)
(***************************************************************************)
\* __slots__, in the order __init__ assigns them
Slots ==
    <<"data", "id", "title", "message_ko", "message_ja", "message_en",
      "image_url", "logo_image_url", "time_created", "count", "is_read",
      "community", "author">>

\* data["message"]["values"].get(locale, "")
MessageValue(data, locale) ==
    LET message == Subscript(data, "message")
    IN  IF message.kind = "raise" THEN message
        ELSE LET values == Subscript(message.v, "values")
             IN  IF values.kind = "raise" THEN values
                 ELSE Return(Get(values.v, locale, PyStr(<<>>)))

\* variant of ImageUrlValue that subscripts: data["imageUrl"]
ImageUrlRequired(data) == Subscript(data, "imageUrl")

\* data.get("imageUrl")
ImageUrlValue(data) == Return(Get(data, "imageUrl", PyNone))

\* PartialCommunity(data["community"])
CommunityValue(data) ==
    LET community == Subscript(data, "community")
    IN  IF community.kind = "raise" THEN community
        ELSE Return(PartialCommunity(community.v))

\* variant of AuthorValue that wraps the last author: data["authors"][-1]
AuthorValueLast(data) ==
    IF Truthy(Get(data, "authors", PyNone))
    THEN Return(PartialMember(data.v["authors"].v[Len(data.v["authors"].v)]))
    ELSE Return(PyNone)

\* PartialMember(data["authors"][0]) if data.get("authors") else None
AuthorValue(data) ==
    IF Truthy(Get(data, "authors", PyNone))
    THEN Return(PartialMember(data.v["authors"].v[1]))
    ELSE Return(PyNone)

\* the right-hand side of the assignment to self.<slot>
SlotValue(slot, data) ==
    CASE slot = "data" -> Return(data)
      [] slot = "id" -> Subscript(data, "activityId")
      [] slot = "title" -> Subscript(data, "title")
      [] slot = "message_ko" -> MessageValue(data, "ko")
      [] slot = "message_ja" -> MessageValue(data, "ja")
      [] slot = "message_en" -> MessageValue(data, "en")
      [] slot = "image_url" -> ImageUrlValue(data)
      [] slot = "logo_image_url" -> Subscript(data, "logoImageUrl")
      [] slot = "time_created" -> Subscript(data, "time")
      [] slot = "count" -> Subscript(data, "count")
      [] slot = "is_read" -> Subscript(data, "read")
      [] slot = "community" -> CommunityValue(data)
      [] slot = "author" -> AuthorValue(data)

\* an object of the class with none of its slots assigned yet
Blank == [cls |-> "Notification"]

SetAttr(self, slot, value) ==
    [k \in DOMAIN self \cup {slot} |-> IF k = slot THEN value ELSE self[k]]

\* the body of __init__ from its i-th assignment on: an exception leaves the
\* method at the first assignment whose right-hand side raises
RECURSIVE InitFrom(_, _, _)
InitFrom(self, data, i) ==
    IF i > Len(Slots) THEN [kind |-> "return", self |-> self]
    ELSE LET rhs == SlotValue(Slots[i], data)
         IN  IF rhs.kind = "raise"
             THEN [kind |-> "raise", exc |-> rhs.exc, self |-> self]
             ELSE InitFrom(SetAttr(self, Slots[i], rhs.v), data, i + 1)

\* the expression Notification(data): the new object, or the exception that
\* __init__ raised (the half-built object is then dropped)
Notification(data) ==
    LET done == InitFrom(Blank, data, 1)
    IN  IF done.kind = "raise" THEN Raise(done.exc) ELSE Return(done.self)

(***************************************************************************)
(* Notification: comparison, hashing, textual forms                        *)
(***************************************************************************)
\* variant of eq that also compares the titles
EqIdAndTitle(self, other) ==
    IF other.cls = self.cls
    THEN Return(PyBool(self.id = other.id /\ self.title = other.title))
    ELSE Raise("NotImplementedError")

\* variant of eq that answers False for a value of another class
EqOrFalse(self, other) ==
    IF other.cls = self.cls THEN Return(PyBool(self.id = other.id))
    ELSE Return(PyBool(FALSE))

\* __eq__(self, other)
eq(self, other) ==
    IF other.cls = self.cls THEN Return(PyBool(self.id = other.id))
    ELSE Raise("NotImplementedError")

\* hash of an int below the hash modulus: the int itself, except that -1 is
\* reserved and hashes to -2
HashInt(i) == IF i = -1 THEN -2 ELSE i

\* __hash__(self)
hash(self) == Return(PyInt(HashInt(self.id.v)))

\* __repr__(self)
repr(self) ==
    Return(PyStr(<<"N","o","t","i","f","i","c","a","t","i","o","n"," ","n","o","t","i","f","i","c","a","t","i","o","n","_","i","d","=">> \o IntToStr(self.id.v)
                 \o <<","," ","m","e","s","s","a","g","e","=">> \o self.message_en.v))

\* __str__(self)
str(self) == Return(self.message_en)

(***************************************************************************)
(* Notification: derived properties                                        *)
(***************************************************************************)
\* url
url(self) ==
    LET webUrl == Subscript(self.data, "webUrl")
    IN  IF webUrl.kind = "raise" THEN webUrl
        ELSE Return(PyStr(<<"h","t","t","p","s",":","/","/","w","e","v","e","r","s","e",".","i","o">> \o webUrl.v.v))

\* post_id
post_id(self) ==
    LET messageId == Subscript(self.data, "messageId")
    IN  IF messageId.kind = "raise" THEN messageId
        ELSE LET s == messageId.v.v
                 first == SearchHyphenated(s)
                 match == IF first = NoMatch THEN SearchDigits(s) ELSE first
             IN  Group0(match, s)

\* the marker table of post_type, in the order the dict literal declares it
post_types ==
    <<[key |-> <<"T","_","F","E","E","D","_","C","O","M","M","E","N","T">>, value |-> NotificationType("USER_POST_COMMENT")],
      [key |-> <<"S","T","_","F","E","E","D","_","C","O","M","M","E","N","T">>, value |-> NotificationType("USER_POST_COMMENT")],
      [key |-> <<"_","M","E","D","I","A","_","C","O","M","M","E","N","T">>, value |-> NotificationType("MEDIA_COMMENT")],
      [key |-> <<"_","M","O","M","E","N","T","_","C","O","M","M","E","N","T">>, value |-> NotificationType("MOMENT_COMMENT")],
      [key |-> <<"M","O","M","E","N","T","_","C","O","M","M","E","N","T">>, value |-> NotificationType("MOMENT_COMMENT")],
      [key |-> <<"A","R","T","I","S","T","_","C","O","M","M","E","N","T">>, value |-> NotificationType("ARTIST_POST_COMMENT")],
      [key |-> <<"A","R","T","I","S","T","_","P","O","S","T">>, value |-> NotificationType("POST")],
      [key |-> <<"A","R","T","I","S","T","_","M","O","M","E","N","T">>, value |-> NotificationType("MOMENT")],
      [key |-> <<"A","R","T","I","S","T","_","L","I","V","E","_","O","N","_","A","I","R">>, value |-> NotificationType("LIVE")],
      [key |-> <<"C","O","M","M","U","N","I","T","Y","_","M","E","D","I","A">>, value |-> NotificationType("MEDIA")],
      [key |-> <<"N","O","T","I","C","E">>, value |-> NotificationType("NOTICE")],
      [key |-> <<"C","O","M","M","U","N","I","T","Y","_","A","N","N","I","V","E","R","S","A","R","Y">>, value |-> NotificationType("BIRTHDAY")]>>

\* variant of the loop in which a later entry overrides an earlier one
RECURSIVE PostTypeLoopLast(_, _)
PostTypeLoopLast(s, i) ==
    IF i > Len(post_types) THEN Return(PyStr(<<"N","O","T"," ","I","M","P","L","E","M","E","N","T","E","D">>))
    ELSE LET rest == PostTypeLoopLast(s, i + 1)
         IN  IF rest.v.cls = "NotificationType" THEN rest
             ELSE IF Contains(post_types[i].key, s) THEN Return(post_types[i].value)
             ELSE rest

\* for key, value in post_types.items(): the loop from its i-th entry on
RECURSIVE post_type_loop(_, _)
post_type_loop(s, i) ==
    IF i > Len(post_types) THEN Return(PyStr(<<"N","O","T"," ","I","M","P","L","E","M","E","N","T","E","D">>))
    ELSE IF Contains(post_types[i].key, s) THEN Return(post_types[i].value)
    ELSE post_type_loop(s, i + 1)

\* post_type
post_type(self) ==
    LET messageId == Subscript(self.data, "messageId")
    IN  IF messageId.kind = "raise" THEN messageId
        ELSE post_type_loop(messageId.v.v, 1)

(***************************************************************************)
(* Payloads: the mappings a caller hands to the constructor                *)
(***************************************************************************)
\* payloads lack at most this many of the keys of the full payload
MaxMissing == 1

\* activity ids range over -2 .. MaxId
MaxId == 1

\* the strings built from single characters are at most this long
MaxLen == 4

\* the strings built from markers join at most this many pieces
MaxPieces == 2

Member(i) == PyDict([memberId |-> PyInt(i)])

AllLocales == [ko |-> PyStr(<<"k","o">>), ja |-> PyStr(<<"j","a">>), en |-> PyStr(<<"e","n">>)]

\* a payload that holds every key the class reads
BasePayload ==
    PyDict([activityId |-> PyInt(1),
            title |-> PyStr(<<"B","T","S">>),
            message |-> PyDict([values |-> PyDict(AllLocales)]),
            imageUrl |-> PyStr(<<"/","i">>),
            logoImageUrl |-> PyStr(<<"/","l">>),
            time |-> PyInt(1),
            count |-> PyInt(0),
            read |-> PyBool(FALSE),
            community |-> PyDict([communityId |-> PyInt(7)]),
            authors |-> PyList(<<Member(1)>>),
            webUrl |-> PyStr(<<"/","w">>),
            messageId |-> PyStr(<<"c","2","p","-","T","_","F","E","E","D","_","C","O","M","M","E","N","T","-","3","-","1","2","3","4","5">>)])

Without(d, keys) == PyDict([k \in DOMAIN d.v \ keys |-> d.v[k]])

With(d, key, value) == PyDict([d.v EXCEPT ![key] = value])

KeyPayloads ==
    {Without(BasePayload, K) :
        K \in {X \in SUBSET DOMAIN BasePayload.v : Cardinality(X) <= MaxMissing}}

MessagePayloads ==
    {With(BasePayload, "message", PyDict([k \in {} |-> PyNone]))}
    \cup {With(BasePayload, "message",
               PyDict([values |-> PyDict([k \in L |-> AllLocales[k]])])) :
            L \in SUBSET DOMAIN AllLocales}

IdPayloads == {With(BasePayload, "activityId", PyInt(i)) : i \in (-2)..MaxId}

TitlePayloads == {With(BasePayload, "title", PyStr(<<"N","o","t","i","c","e">>))}

AuthorsPayloads ==
    {With(BasePayload, "authors", PyList(a)) :
        a \in {<<>>, <<Member(2), Member(1)>>}}

MessageIdPayloads ==
    {With(BasePayload, "messageId", PyStr(m)) : m \in {<<"N","O","T","I","C","E","-","9","8","7","6","5">>, <<"U","N","K","N","O","W","N">>}}

Payloads ==
    KeyPayloads \cup MessagePayloads \cup IdPayloads \cup TitlePayloads
    \cup AuthorsPayloads \cup MessageIdPayloads

\* payloads that differ in id, or in another field only
EqPayloads == IdPayloads \cup TitlePayloads

SeqsUpTo(S, n) == UNION {[1..k -> S] : k \in 0..n}

RECURSIVE Concat(_)
Concat(pieces) == IF pieces = <<>> THEN <<>> ELSE Head(pieces) \o Concat(Tail(pieces))

Alphabet == {"1", "2", "-", "X"}

Pieces == {post_types[i].key : i \in 1..Len(post_types)} \cup {<<"X">>, <<"-","3","-","1">>, <<"-","9","8","7","6","5">>}

MessageIds ==
    SeqsUpTo(Alphabet, MaxLen)
    \cup {Concat(ps) : ps \in SeqsUpTo(Pieces, MaxPieces)}

StrPayloads == {With(BasePayload, "messageId", PyStr(m)) : m \in MessageIds}

(***************************************************************************)
(* State: the caller's variables, and the last call with its outcome       *)
(***************************************************************************)
Names == {"a", "b", "c"}

\* a variable that no object has been assigned to
Unbound == [cls |-> "unbound"]

NoCall == [op |-> "none", self |-> "none", arg |-> PyNone, out |-> Return(PyNone)]

Init ==
    /\ objs = [n \in Names |-> Unbound]
    /\ last = NoCall

\* values that are not Notifications, to compare an object with
OtherKinds == {"None", "id", "data", "str", "community"}

Other(self, kind) ==
    CASE kind = "None" -> PyNone
      [] kind = "id" -> self.id
      [] kind = "data" -> self.data
      [] kind = "str" -> self.message_en
      [] kind = "community" -> self.community

\* n = Notification(data): n is bound only if the constructor returns
Construct(n, data) ==
    /\ objs[n] = Unbound
    /\ LET out == Notification(data)
       IN  /\ objs' = IF out.kind = "return" THEN [objs EXCEPT ![n] = out.v] ELSE objs
           /\ last' = [op |-> "__init__", self |-> n, arg |-> data,
                       out |-> IF out.kind = "return" THEN Return(PyNone) ELSE out]

\* the outcome of a call on the object bound to n
Call(op, self, arg) ==
    CASE op = "__eq__" -> eq(self, arg)
      [] op = "__hash__" -> hash(self)
      [] op = "__repr__" -> repr(self)
      [] op = "__str__" -> str(self)
      [] op = "url" -> url(self)
      [] op = "post_id" -> post_id(self)
      [] op = "post_type" -> post_type(self)

\* what the caller records of a call on the object bound to n
Called(op, n, arg) == [op |-> op, self |-> n, arg |-> arg, out |-> Call(op, objs[n], arg)]

\* objs[n] == objs[m]
Compare(n, m) ==
    /\ objs[n] # Unbound
    /\ objs[m] # Unbound
    /\ last' = Called("__eq__", n, objs[m])
    /\ UNCHANGED objs

\* objs[n] == other, for a value that is no Notification
CompareOther(n, kind) ==
    /\ objs[n] # Unbound
    /\ last' = Called("__eq__", n, Other(objs[n], kind))
    /\ UNCHANGED objs

\* hash(objs[n])
TakeHash(n) ==
    /\ objs[n] # Unbound
    /\ last' = Called("__hash__", n, PyNone)
    /\ UNCHANGED objs

\* repr(objs[n])
TakeRepr(n) ==
    /\ objs[n] # Unbound
    /\ last' = Called("__repr__", n, PyNone)
    /\ UNCHANGED objs

\* str(objs[n])
TakeStr(n) ==
    /\ objs[n] # Unbound
    /\ last' = Called("__str__", n, PyNone)
    /\ UNCHANGED objs

\* objs[n].url
ReadUrl(n) ==
    /\ objs[n] # Unbound
    /\ last' = Called("url", n, PyNone)
    /\ UNCHANGED objs

\* variant of ReadPostId in which the property pops messageId off the payload
ReadPostIdPopping(n) ==
    /\ objs[n] # Unbound
    /\ last' = Called("post_id", n, PyNone)
    /\ objs' = [objs EXCEPT ![n] =
                  [@ EXCEPT !.data = Without(@, {"messageId"})]]

\* objs[n].post_id
ReadPostId(n) ==
    /\ objs[n] # Unbound
    /\ last' = Called("post_id", n, PyNone)
    /\ UNCHANGED objs

\* objs[n].post_type
ReadPostType(n) ==
    /\ objs[n] # Unbound
    /\ last' = Called("post_type", n, PyNone)
    /\ UNCHANGED objs

\* two variables, every operation, payloads varying every field
Next ==
    \/ \E n \in {"a", "b"}, data \in Payloads : Construct(n, data)
    \/ \E n, m \in {"a", "b"} : Compare(n, m)
    \/ \E n \in {"a", "b"}, kind \in OtherKinds : CompareOther(n, kind)
    \/ \E n \in {"a", "b"} : TakeHash(n)
    \/ \E n \in {"a", "b"} : TakeRepr(n)
    \/ \E n \in {"a", "b"} : TakeStr(n)
    \/ \E n \in {"a", "b"} : ReadUrl(n)
    \/ \E n \in {"a", "b"} : ReadPostId(n)
    \/ \E n \in {"a", "b"} : ReadPostType(n)

Spec == Init /\ [][Next]_vars

\* three variables, comparison and hashing, payloads varying id and title
NextEq ==
    \/ \E n \in Names, data \in EqPayloads : Construct(n, data)
    \/ \E n, m \in Names : Compare(n, m)
    \/ \E n \in Names : TakeHash(n)

SpecEq == Init /\ [][NextEq]_vars

\* one variable, post_id and post_type, payloads varying messageId
NextStr ==
    \/ \E data \in StrPayloads : Construct("a", data)
    \/ ReadPostId("a")
    \/ ReadPostType("a")

SpecStr == Init /\ [][NextStr]_vars

(***************************************************************************)
(* Properties of post_id                                                   *)
(***************************************************************************)
\* the last call was op, on an object whose payload holds a messageId
IsCallOnMessageId(op) ==
    /\ last.op = op
    /\ "messageId" \in DOMAIN objs[last.self].data.v

\* the messageId of the object of the last call
LastMessageId == objs[last.self].data.v["messageId"].v

Min(S) == CHOOSE x \in S : \A y \in S : x <= y

DigitPositions(s) == {i \in 1..Len(s) : IsDigit(s[i])}

\* a maximal run of digits of s starts at i
RunStart(s, i) == IsDigit(s[i]) /\ (i = 1 \/ ~IsDigit(s[i - 1]))

\* the last position of the run of digits that holds position i
RunEnd(s, i) ==
    CHOOSE k \in i..Len(s) :
        /\ \A j \in i..k : IsDigit(s[j])
        /\ k = Len(s) \/ ~IsDigit(s[k + 1])

\* a <digits>-<digits> fragment starts at i: a maximal run of digits, a
\* hyphen, a run of digits
FragmentAt(s, i) ==
    /\ RunStart(s, i)
    /\ LET e == RunEnd(s, i)
       IN  e + 2 <= Len(s) /\ s[e + 1] = "-" /\ IsDigit(s[e + 2])

FragmentStarts(s) == {i \in 1..Len(s) : FragmentAt(s, i)}

\* the first <digits>-<digits> fragment of s, with all of its digits
FirstFragment(s) ==
    LET i == Min(FragmentStarts(s))
    IN  SubSeq(s, i, RunEnd(s, RunEnd(s, i) + 2))

\* the first maximal run of digits of s
FirstDigitRun(s) ==
    LET i == Min(DigitPositions(s))
    IN  SubSeq(s, i, RunEnd(s, i))

\* C1: when messageId holds a <digits>-<digits> fragment, post_id returns the
\* first such fragment verbatim, with all the digits before the hyphen and
\* all the digits after it.
C1_FirstFragmentVerbatim ==
    (IsCallOnMessageId("post_id") /\ FragmentStarts(LastMessageId) # {})
        => last.out = Return(PyStr(FirstFragment(LastMessageId)))

\* C3: when messageId holds no <digits>-<digits> fragment but holds a digit,
\* post_id returns the first maximal run of digits, whatever markers the
\* string holds.
C3_FallbackFirstDigitRun ==
    (/\ IsCallOnMessageId("post_id")
     /\ FragmentStarts(LastMessageId) = {}
     /\ DigitPositions(LastMessageId) # {})
        => last.out = Return(PyStr(FirstDigitRun(LastMessageId)))

\* post_id was read on "NOTICE-98765" and returned "98765"
C3_Witness ==
    /\ IsCallOnMessageId("post_id")
    /\ LastMessageId = <<"N","O","T","I","C","E","-","9","8","7","6","5">>
    /\ FragmentStarts(LastMessageId) = {}
    /\ last.out = Return(PyStr(<<"9","8","7","6","5">>))

\* C4: when messageId holds no digit, post_id ends in an exception and
\* returns no value.
C4_NoDigitRaises ==
    (IsCallOnMessageId("post_id") /\ DigitPositions(LastMessageId) = {})
        => last.out.kind = "raise"

\* post_id was read on "NOTICE", which holds no digit, and raised
C4_Witness ==
    /\ IsCallOnMessageId("post_id")
    /\ LastMessageId = <<"N","O","T","I","C","E">>
    /\ last.out = Raise("AttributeError")

(***************************************************************************)
(* Properties of post_type                                                 *)
(***************************************************************************)
\* the markers in the order the table is documented to declare them
DeclaredMarkers ==
    <<<<"T","_","F","E","E","D","_","C","O","M","M","E","N","T">>, <<"S","T","_","F","E","E","D","_","C","O","M","M","E","N","T">>, <<"_","M","E","D","I","A","_","C","O","M","M","E","N","T">>,
      <<"_","M","O","M","E","N","T","_","C","O","M","M","E","N","T">>, <<"M","O","M","E","N","T","_","C","O","M","M","E","N","T">>, <<"A","R","T","I","S","T","_","C","O","M","M","E","N","T">>, <<"A","R","T","I","S","T","_","P","O","S","T">>,
      <<"A","R","T","I","S","T","_","M","O","M","E","N","T">>, <<"A","R","T","I","S","T","_","L","I","V","E","_","O","N","_","A","I","R">>, <<"C","O","M","M","U","N","I","T","Y","_","M","E","D","I","A">>, <<"N","O","T","I","C","E">>,
      <<"C","O","M","M","U","N","I","T","Y","_","A","N","N","I","V","E","R","S","A","R","Y">>>>

\* the positions in DeclaredMarkers of the markers that occur in s
MarkersIn(s) ==
    {i \in 1..Len(DeclaredMarkers) :
        \E j \in 1..Len(s) :
            /\ j + Len(DeclaredMarkers[i]) - 1 <= Len(s)
            /\ \A k \in 1..Len(DeclaredMarkers[i]) : s[j + k - 1] = DeclaredMarkers[i][k]}

\* the category the table gives a marker
CategoryOf(marker) ==
    post_types[CHOOSE i \in 1..Len(post_types) : post_types[i].key = marker].value

Sentinel == PyStr(<<"N","O","T"," ","I","M","P","L","E","M","E","N","T","E","D">>)

\* C2: post_type returns the category of the marker declared earliest among
\* those that occur in messageId, wherever in the string they occur.
C2_FirstDeclaredMarker ==
    (IsCallOnMessageId("post_type") /\ MarkersIn(LastMessageId) # {})
        => last.out = Return(CategoryOf(DeclaredMarkers[Min(MarkersIn(LastMessageId))]))

\* post_type was read on "NOTICEARTIST_POST": NOTICE comes first in the
\* string, ARTIST_POST first in the table, and the result is POST
C2_Witness ==
    /\ IsCallOnMessageId("post_type")
    /\ LastMessageId = <<"N","O","T","I","C","E">> \o <<"A","R","T","I","S","T","_","P","O","S","T">>
    /\ last.out = Return(NotificationType("POST"))

\* C5: post_type returns the sentinel "NOT IMPLEMENTED", without raising,
\* when no marker occurs in messageId, and only then.
C5_SentinelIffNoMarker ==
    IsCallOnMessageId("post_type")
        => /\ last.out.kind = "return"
           /\ (last.out.v = Sentinel) <=> (MarkersIn(LastMessageId) = {})

\* post_type was read on a messageId without any marker and returned the sentinel
C5_Witness ==
    /\ IsCallOnMessageId("post_type")
    /\ LastMessageId = <<"X","-","3","-","1">>
    /\ last.out = Return(Sentinel)

(***************************************************************************)
(* Properties of comparison and hashing                                    *)
(***************************************************************************)
Bound == {n \in Names : objs[n] # Unbound}

\* a == b evaluates to True
Equal(a, b) == eq(a, b) = Return(PyBool(TRUE))

\* C6: for Notifications a and b, a == b holds exactly when a.id == b.id,
\* whatever their other fields are; the relation is reflexive, symmetric and
\* transitive; equal objects have equal hashes, the hash depending on id alone.
C6_EqualityAndHashById ==
    /\ (last.op = "__eq__" /\ last.arg.cls = "Notification")
           => last.out = Return(PyBool(objs[last.self].id = last.arg.id))
    /\ \A n \in Bound : Equal(objs[n], objs[n])
    /\ \A n, m \in Bound : Equal(objs[n], objs[m]) <=> objs[n].id = objs[m].id
    /\ \A n, m \in Bound : Equal(objs[n], objs[m]) => Equal(objs[m], objs[n])
    /\ \A n, m, k \in Bound :
           (Equal(objs[n], objs[m]) /\ Equal(objs[m], objs[k])) => Equal(objs[n], objs[k])
    /\ \A n, m \in Bound : Equal(objs[n], objs[m]) => hash(objs[n]) = hash(objs[m])
    /\ \A n, m \in Bound : objs[n].id = objs[m].id => hash(objs[n]) = hash(objs[m])
    /\ last.op = "__hash__" => last.out = Return(PyInt(HashInt(objs[last.self].id.v)))

\* three objects are bound, two with the same id and different titles and a
\* third with another id, and the two have just been compared equal
C6_Witness ==
    /\ Bound = Names
    /\ last.op = "__eq__"
    /\ last.out = Return(PyBool(TRUE))
    /\ objs[last.self].title # last.arg.title
    /\ \E k \in Bound : objs[k].id # objs[last.self].id

\* C7: comparing a Notification with a value that is no Notification ends in
\* an exception; it returns neither False nor True.
C7_CompareOtherRaises ==
    (last.op = "__eq__" /\ last.arg.cls # "Notification")
        => last.out = Raise("NotImplementedError")

\* an object was compared with the integer that is its id, and the call raised
C7_Witness ==
    /\ last.op = "__eq__"
    /\ last.arg = objs[last.self].id
    /\ last.out.kind = "raise"

(***************************************************************************)
(* Properties of construction                                              *)
(***************************************************************************)
RequiredKeys ==
    {"activityId", "title", "message", "logoImageUrl", "time", "count", "read",
     "community"}

\* the payload lacks a required key, or the values mapping under message
LacksRequired(data) ==
    \/ \E k \in RequiredKeys : k \notin DOMAIN data.v
    \/ "values" \notin DOMAIN data.v["message"].v

AllSlots == {Slots[i] : i \in 1..Len(Slots)}

\* C8: construction yields an object with every slot set, or raises KeyError
\* and binds nothing; it raises exactly when a required key (or the values
\* mapping under message) is absent, so the absence of imageUrl, authors or a
\* locale never makes it fail.
C8_AllOrNothing ==
    /\ \A n \in Bound : DOMAIN objs[n] = AllSlots \cup {"cls"}
    /\ last.op = "__init__" =>
           /\ (last.out.kind = "raise") <=> LacksRequired(last.arg)
           /\ last.out.kind = "raise" =>
                  (last.out.exc = "KeyError" /\ objs[last.self] = Unbound)
           /\ last.out.kind = "return" =>
                  (last.self \in Bound /\ objs[last.self].data = last.arg)

\* a payload without community was given to the constructor, which raised,
\* and the variable is still unbound
C8_Witness ==
    /\ last.op = "__init__"
    /\ "community" \notin DOMAIN last.arg.v
    /\ last.out = Raise("KeyError")
    /\ objs[last.self] = Unbound

\* the payload holds an authors list with at least one element
HasAuthors(data) ==
    /\ "authors" \in DOMAIN data.v
    /\ data.v["authors"].cls = "list"
    /\ Len(data.v["authors"].v) >= 1

\* C9: after a successful construction author is present exactly when the
\* payload's authors list exists and is not empty; it then wraps the first
\* element of the list, and is None otherwise.
C9_AuthorIffAuthors ==
    \A n \in Bound :
        /\ (objs[n].author # PyNone) <=> HasAuthors(objs[n].data)
        /\ HasAuthors(objs[n].data) =>
               objs[n].author = PartialMember(Head(objs[n].data.v["authors"].v))

\* an object was built from a payload with two authors and wraps the first
C9_Witness ==
    \E n \in Bound :
        /\ HasAuthors(objs[n].data)
        /\ Len(objs[n].data.v["authors"].v) = 2
        /\ objs[n].author = PartialMember(Member(2))
        /\ last.op = "__init__" /\ last.self = n

(***************************************************************************)
(* Immutability                                                            *)
(***************************************************************************)
\* no step changes an object once it is bound
Frozen == \A n \in Names : objs[n] # Unbound => objs'[n] = objs[n]

\* the outcome recorded for the last call is the outcome the same call has now
Repeatable ==
    last.op \notin {"none", "__init__"}
        => last.out = Call(last.op, objs[last.self], last.arg)

\* C10: no operation of the class, whether it returns or raises, changes the
\* id, another field or the retained payload of a constructed object, so a
\* query repeated on the object has the same outcome.
C10_Immutable == [][Frozen]_vars /\ []Repeatable

\* post_id was read on an object whose messageId holds no digit and raised,
\* and the object is still what its constructor built
C10_Witness ==
    /\ last.op = "post_id"
    /\ last.out.kind = "raise"
    /\ Return(objs[last.self]) = Notification(objs[last.self].data)

====
